---- MODULE Spec2Model ----
(***************************************************************************)
(* The order lifecycle, delivery and scoring core of greenwelt:            *)
(*   screens/map/order_manager.py      OrderManager, OrderSystem           *)
(*   screens/dialogs/phone.py          PhoneScreen (accept through phone)  *)
(*   screens/dialogs/phone_visible_order.py  PhoneVisibleOrderScreen       *)
(*   screens/dialogs/delivery_dialog.py      DeliveryDialog                *)
(*   screens/map/map_ui.py             MapUI (player inventory, delivery)  *)
(*                                                                         *)
(* Time is counted in whole seconds: every float of the source (dt, the    *)
(* countdowns, the rolled delays) is an integer number of seconds here.    *)
(***************************************************************************)
EXTENDS Integers, Sequences, FiniteSets, TLC

\* ------------------------------------------------------------------ bounds

\* Largest frame time dt of one tick, in seconds; a tick takes 1..MaxDt.
MaxDt == 2
\* An accept of an order that is not in visible_orders leaves the order in a
\* second collection; the model follows at most MaxDuplicates such accepts.
MaxDuplicates == 1
\* Below zero only the sign of countdown_to_incoming is read
\* (order_manager.py:325); the model stops lowering it at -TimerFloor.
TimerFloor == 1

\* Most order descriptors in the orders file of the loading model.
MaxDescriptors == 2

\* ------------------------------------------------- configuration (map config)
\* The values a map passes to OrderManager.set_config; the model reads one
\* small configuration (the source's defaults are 3, 10.0, 15.0 and 6).

batch_size == 2
batch_delay == 2
accept_time == 2
active_order_limit == 2
points_per_plant == 10
full_order_bonus == 20
\* select_next_batch's retry value while throttled (order_manager.py:159).
retry_delay == 1

\* The thresholds a map may configure; 0 means "not configured".
\* <<orders_required, plants_required, score_required>>.
ThresholdChoices ==
  { <<0, 0, 0>>, <<2, 0, 0>>, <<0, 3, 0>>, <<0, 0, 40>>, <<2, 3, 40>> }

\* ------------------------------------------------------- the loaded orders

NoOrder == "none"
Plants == {"apple", "basil"}
Locations == {"L1", "L2"}

\* orders_data as load_orders reads it: location -> list of descriptors.
\* "o2" lists the same plant on two request lines.
OrderData ==
  [o1 |-> [customer_location |-> "L1", send_time |-> 2,
           plants |-> << [filename |-> "apple", amount |-> 2],
                         [filename |-> "basil", amount |-> 1] >>],
   o2 |-> [customer_location |-> "L1", send_time |-> 2,
           plants |-> << [filename |-> "apple", amount |-> 1],
                         [filename |-> "apple", amount |-> 1] >>],
   o3 |-> [customer_location |-> "L2", send_time |-> 2,
           plants |-> << [filename |-> "basil", amount |-> 1] >>]]

Orders == DOMAIN OrderData

\* The order in which load_orders appends to available_orders.
LoadSequence == << "o1", "o2", "o3" >>

AVAILABLE == "available"
INCOMING == "incoming"
VISIBLE == "visible"
ACCEPTED == "accepted"
COMPLETED == "completed"

\* ----------------------------------------------------------------- helpers

Range(s) == {s[i] : i \in 1..Len(s)}

\* Python's "x in list".
InList(x, s) == \E i \in 1..Len(s) : s[i] = x

\* Number of occurrences of x in s.
Count(x, s) == Cardinality({i \in 1..Len(s) : s[i] = x})

\* Python's list.remove(x): drops the first occurrence of x.
RECURSIVE ListRemove(_, _)
ListRemove(s, x) ==
  IF s = << >> THEN << >>
  ELSE IF Head(s) = x THEN Tail(s)
  ELSE << Head(s) >> \o ListRemove(Tail(s), x)

Min(a, b) == IF a <= b THEN a ELSE b
Max(a, b) == IF a >= b THEN a ELSE b

\* Python's dict.get(key, 0) on a dict modelled as a function on its keys.
DictGet(d, k) == IF k \in DOMAIN d THEN d[k] ELSE 0

\* d with d[k] = v set (key added when absent).
DictSet(d, k, v) == [x \in (DOMAIN d) \cup {k} |-> IF x = k THEN v ELSE d[x]]

\* Python's "del d[k]".
DictDel(d, k) == [x \in (DOMAIN d) \ {k} |-> d[x]]

\* ------------------------------------------------------------ OrderManager
\* A manager value m is a record of OrderManager's fields; m.order[o] holds the
\* mutable fields of Order o (state and the two countdowns).

\* Order(...) as load_orders constructs it (order_manager.py:113-123).
NewOrder == [state |-> AVAILABLE, countdown_to_visible |-> -1,
             countdown_to_available |-> -1]

\* OrderManager after __init__, set_config and load_orders.
LoadedManager(oreq, preq, sreq) ==
  [available_orders |-> LoadSequence,
   incoming_orders |-> << >>,
   visible_orders |-> << >>,
   accepted_orders |-> << >>,
   completed_orders |-> << >>,
   countdown_to_incoming |-> 0,
   orders_completed_count |-> 0,
   plants_delivered_count |-> 0,
   total_score |-> 0,
   orders_required |-> oreq,
   plants_required |-> preq,
   score_required |-> sreq,
   map_completed |-> FALSE,
   order |-> [o \in Orders |-> NewOrder]]

\* First pass of select_next_batch: orders from locations not yet selected.
RECURSIVE FirstPass(_, _, _)
FirstPass(rest, selected, batch_count) ==
  IF rest = << >> \/ Len(selected) >= batch_count THEN selected
  ELSE IF \E i \in 1..Len(selected) :
            OrderData[selected[i]].customer_location
              = OrderData[Head(rest)].customer_location
       THEN FirstPass(Tail(rest), selected, batch_count)
       ELSE FirstPass(Tail(rest), Append(selected, Head(rest)), batch_count)

\* Second pass of select_next_batch: fill up with orders not yet selected.
RECURSIVE SecondPass(_, _, _)
SecondPass(rest, selected, batch_count) ==
  IF rest = << >> \/ Len(selected) >= batch_count THEN selected
  ELSE IF InList(Head(rest), selected)
       THEN SecondPass(Tail(rest), selected, batch_count)
       ELSE SecondPass(Tail(rest), Append(selected, Head(rest)), batch_count)

\* batch_count of select_next_batch (order_manager.py:162).
BatchCount(m) == Min(batch_size, Len(m.available_orders))

\* select_next_batch taking the first batch_count orders of the pool, whatever
\* their locations.
SelectedOrdersInPoolOrder(m) == SubSeq(m.available_orders, 1, BatchCount(m))

\* select_next_batch without its second pass: the batch is never filled up
\* with further orders of locations already selected.
SelectedOrdersFirstPassOnly(m) ==
  FirstPass(m.available_orders, << >>, BatchCount(m))

\* select_next_batch taking the last batch_count orders of the pool.
SelectedOrdersFromTail(m) ==
  SubSeq(m.available_orders,
         Len(m.available_orders) - BatchCount(m) + 1, Len(m.available_orders))

\* selected_orders of select_next_batch for the pool of m.
SelectedOrders(m) ==
  SecondPass(m.available_orders,
             FirstPass(m.available_orders, << >>, BatchCount(m)),
             BatchCount(m))

\* The roll of select_next_batch drawn from 0 up to send_time.
RolledSendTimesFromZero(o) == 0 .. OrderData[o].send_time

\* The delays random.uniform(send_time / 2, send_time) can return for o.
RolledSendTimes(o) ==
  (OrderData[o].send_time \div 2) .. OrderData[o].send_time

\* One rolled delay for every order of the set S.
RollsFor(S) ==
  {r \in [S -> UNION {RolledSendTimes(o) : o \in S}] :
     \A o \in S : r[o] \in RolledSendTimes(o)}

\* The loop "for order in selected_orders" of select_next_batch.
RECURSIVE MoveToIncoming(_, _, _)
MoveToIncoming(m, selected, roll) ==
  IF selected = << >> THEN m
  ELSE LET o == Head(selected)
           m1 == [m EXCEPT
                    !.available_orders = ListRemove(@, o),
                    !.order[o].state = INCOMING,
                    !.order[o].countdown_to_visible = roll[o],
                    !.incoming_orders = Append(@, o)]
       IN MoveToIncoming(m1, Tail(selected), roll)

\* The throttle test of select_next_batch with > written for >=.
ThrottledAboveLimit(m) == Len(m.accepted_orders) > active_order_limit

\* Whether select_next_batch returns early because of active_order_limit.
Throttled(m) == Len(m.accepted_orders) >= active_order_limit

\* select_next_batch setting the full batch_delay while throttled.
select_next_batch_full_delay(m, roll) ==
  IF m.available_orders = << >> THEN m
  ELSE IF Throttled(m)
       THEN [m EXCEPT !.countdown_to_incoming = batch_delay]
       ELSE [MoveToIncoming(m, SelectedOrders(m), roll)
               EXCEPT !.countdown_to_incoming = batch_delay]

select_next_batch(m, roll) ==
  IF m.available_orders = << >> THEN m
  ELSE IF Throttled(m)
       THEN [m EXCEPT !.countdown_to_incoming = retry_delay]
       ELSE [MoveToIncoming(m, SelectedOrders(m), roll)
               EXCEPT !.countdown_to_incoming = batch_delay]

move_to_visible(m, o) ==
  [m EXCEPT
     !.incoming_orders = IF InList(o, @) THEN ListRemove(@, o) ELSE @,
     !.order[o].state = VISIBLE,
     !.order[o].countdown_to_visible = -1,
     !.order[o].countdown_to_available = accept_time,
     !.visible_orders = Append(@, o)]

\* move_to_available leaving the run-out countdown_to_available as it is.
move_to_available_keeping_countdown(m, o) ==
  [m EXCEPT
     !.visible_orders = IF InList(o, @) THEN ListRemove(@, o) ELSE @,
     !.order[o].state = AVAILABLE,
     !.order[o].countdown_to_visible = -1,
     !.available_orders = Append(@, o)]

move_to_available(m, o) ==
  [m EXCEPT
     !.visible_orders = IF InList(o, @) THEN ListRemove(@, o) ELSE @,
     !.order[o].state = AVAILABLE,
     !.order[o].countdown_to_visible = -1,
     !.order[o].countdown_to_available = -1,
     !.available_orders = Append(@, o)]

accept_order(m, o) ==
  [m EXCEPT
     !.visible_orders = IF InList(o, @) THEN ListRemove(@, o) ELSE @,
     !.order[o].state = ACCEPTED,
     !.order[o].countdown_to_visible = -1,
     !.order[o].countdown_to_available = -1,
     !.accepted_orders = Append(@, o)]

\* complete_order adding full_order_bonus whether or not the delivery is full.
complete_order_always_bonus(m, o, plants_delivered, is_full_delivery) ==
  [m EXCEPT
     !.accepted_orders = IF InList(o, @) THEN ListRemove(@, o) ELSE @,
     !.order[o].state = COMPLETED,
     !.completed_orders = Append(@, o),
     !.orders_completed_count = @ + 1,
     !.plants_delivered_count = @ + plants_delivered,
     !.total_score = @ + plants_delivered * points_per_plant + full_order_bonus]

\* complete_order charging the bonus as a penalty on a partial delivery.
complete_order_with_penalty(m, o, plants_delivered, is_full_delivery) ==
  [m EXCEPT
     !.accepted_orders = IF InList(o, @) THEN ListRemove(@, o) ELSE @,
     !.order[o].state = COMPLETED,
     !.completed_orders = Append(@, o),
     !.orders_completed_count = @ + 1,
     !.plants_delivered_count = @ + plants_delivered,
     !.total_score = @ + plants_delivered * points_per_plant
                       + (IF is_full_delivery THEN full_order_bonus
                          ELSE 0 - full_order_bonus)]

complete_order(m, o, plants_delivered, is_full_delivery) ==
  [m EXCEPT
     !.accepted_orders = IF InList(o, @) THEN ListRemove(@, o) ELSE @,
     !.order[o].state = COMPLETED,
     !.completed_orders = Append(@, o),
     !.orders_completed_count = @ + 1,
     !.plants_delivered_count = @ + plants_delivered,
     !.total_score = @ + plants_delivered * points_per_plant
                       + (IF is_full_delivery THEN full_order_bonus ELSE 0)]

\* check_completion without its early return, recomputing the flag and
\* comparing with = where the code compares with >=.
check_completion_recomputed(m) ==
  [m EXCEPT !.map_completed =
     \/ m.orders_required > 0 /\ m.orders_completed_count = m.orders_required
     \/ m.plants_required > 0 /\ m.plants_delivered_count = m.plants_required
     \/ m.score_required > 0 /\ m.total_score = m.score_required]

\* check_completion without the > 0 tests: a threshold of 0 counts as reached.
check_completion_zero_counts(m) ==
  IF m.map_completed THEN m
  ELSE IF \/ m.orders_completed_count >= m.orders_required
          \/ m.plants_delivered_count >= m.plants_required
          \/ m.total_score >= m.score_required
         THEN [m EXCEPT !.map_completed = TRUE]
       ELSE m

check_completion(m) ==
  IF m.map_completed THEN m
  ELSE LET orders_met == m.orders_required > 0
                           /\ m.orders_completed_count >= m.orders_required
           plants_met == m.plants_required > 0
                           /\ m.plants_delivered_count >= m.plants_required
           score_met == m.score_required > 0
                          /\ m.total_score >= m.score_required
       IN IF m.orders_required > 0 /\ orders_met
            THEN [m EXCEPT !.map_completed = TRUE]
          ELSE IF m.plants_required > 0 /\ plants_met
            THEN [m EXCEPT !.map_completed = TRUE]
          ELSE IF m.score_required > 0 /\ score_met
            THEN [m EXCEPT !.map_completed = TRUE]
          ELSE m

\* Number of entries of the five collections together.
TotalEntries(m) ==
  Len(m.available_orders) + Len(m.incoming_orders) + Len(m.visible_orders)
    + Len(m.accepted_orders) + Len(m.completed_orders)

\* ------------------------------------------------------------- OrderSystem

\* Whether process counts the batch timer down (order_manager.py:323).
\* The test of process line 323 without its visible_orders half.
BatchTimerRunsNoIncoming(m) == m.incoming_orders = << >>

BatchTimerRuns(m) == m.incoming_orders = << >> /\ m.visible_orders = << >>

\* The manager after "countdown_to_incoming -= dt".
AfterBatchCountdown(m, dt) ==
  [m EXCEPT !.countdown_to_incoming = Max(@ - dt, 0 - TimerFloor)]

\* Whether this call of process calls select_next_batch.
BatchDue(m, dt) ==
  BatchTimerRuns(m) /\ AfterBatchCountdown(m, dt).countdown_to_incoming <= 0

\* selected_orders of the batch this call of process releases, << >> if none.
ReleasedBatch(m, dt) ==
  IF BatchDue(m, dt) /\ m.available_orders # << >> /\ ~Throttled(m)
  THEN SelectedOrders(m) ELSE << >>

\* Lines 323-326 of process.
BatchStep(m, dt, roll) ==
  IF BatchDue(m, dt) THEN select_next_batch(AfterBatchCountdown(m, dt), roll)
  ELSE IF BatchTimerRuns(m) THEN AfterBatchCountdown(m, dt)
  ELSE m

\* The loop over incoming_orders: every countdown_to_visible goes down by dt.
RECURSIVE CountDownIncoming(_, _, _)
CountDownIncoming(m, rest, dt) ==
  IF rest = << >> THEN m
  ELSE CountDownIncoming(
         [m EXCEPT !.order[Head(rest)].countdown_to_visible = @ - dt],
         Tail(rest), dt)

\* orders_to_make_visible, in list order.
OrdersToMakeVisible(m) ==
  SelectSeq(m.incoming_orders, LAMBDA o : m.order[o].countdown_to_visible <= 0)

RECURSIVE MoveAllToVisible(_, _)
MoveAllToVisible(m, todo) ==
  IF todo = << >> THEN m
  ELSE MoveAllToVisible(move_to_visible(m, Head(todo)), Tail(todo))

\* Lines 328-340 of process.
IncomingStep(m, dt) ==
  LET m1 == CountDownIncoming(m, m.incoming_orders, dt)
  IN MoveAllToVisible(m1, OrdersToMakeVisible(m1))

\* The loop over visible_orders: every countdown_to_available goes down by dt.
RECURSIVE CountDownVisible(_, _, _)
CountDownVisible(m, rest, dt) ==
  IF rest = << >> THEN m
  ELSE CountDownVisible(
         [m EXCEPT !.order[Head(rest)].countdown_to_available = @ - dt],
         Tail(rest), dt)

\* orders_to_expire, in list order.
OrdersToExpire(m) ==
  SelectSeq(m.visible_orders, LAMBDA o : m.order[o].countdown_to_available <= 0)

RECURSIVE MoveAllToAvailable(_, _)
MoveAllToAvailable(m, todo) ==
  IF todo = << >> THEN m
  ELSE MoveAllToAvailable(move_to_available(m, Head(todo)), Tail(todo))

\* Lines 342-350 of process.
VisibleStep(m, dt) ==
  LET m1 == CountDownVisible(m, m.visible_orders, dt)
  IN MoveAllToAvailable(m1, OrdersToExpire(m1))

\* OrderSystem.process(dt); the status log timer only writes to the debug log.
process(m, dt, roll) ==
  check_completion(VisibleStep(IncomingStep(BatchStep(m, dt, roll), dt), dt))

\* ---------------------------------------------------------- DeliveryDialog
\* A dialog value is a record of DeliveryDialog's fields that the delivery
\* reads; order = NoOrder stands for visible = False, order = None.

ClosedDialog ==
  [order |-> NoOrder, celebrating |-> FALSE,
   deliverable_amounts |-> << >>, total_deliverable |-> 0,
   total_requested |-> 0, is_full_delivery |-> FALSE, can_deliver |-> FALSE]

\* The deliverable amount of one request line with the min left out: all that
\* is carried of the plant.
DeliverableAllCarried(plant, inventory) == DictGet(inventory, plant.filename)

\* deliverable = min(requested, available) of one request line, available
\* being player_inventory.get(plant.filename, 0).
DeliverableOf(plant, inventory) ==
  Min(plant.amount, DictGet(inventory, plant.filename))

\* The loop of _calculate_delivery over order.plants, one request line a turn.
RECURSIVE CalculateLines(_, _, _)
CalculateLines(d, lines, inventory) ==
  IF lines = << >> THEN d
  ELSE LET plant == Head(lines)
           requested == plant.amount
           deliverable == DeliverableOf(plant, inventory)
       IN CalculateLines(
            [d EXCEPT
               !.deliverable_amounts = DictSet(@, plant.filename, deliverable),
               !.total_deliverable = @ + deliverable,
               !.total_requested = @ + requested],
            Tail(lines), inventory)

\* DeliveryDialog.open(order, ...) with its call of _calculate_delivery.
calculate_delivery(o, inventory) ==
  LET d == CalculateLines([ClosedDialog EXCEPT !.order = o],
                          OrderData[o].plants, inventory)
  IN [d EXCEPT !.can_deliver = d.total_deliverable > 0,
               !.is_full_delivery = (d.total_deliverable = d.total_requested)]

\* ------------------------------------------------------------------- MapUI

\* _on_plants_delivered storing the new amount in every case, an amount of 0
\* included, with no del.
RECURSIVE on_plants_delivered_keeping_zero(_, _)
on_plants_delivered_keeping_zero(inventory, delivered_amounts) ==
  IF DOMAIN delivered_amounts = {} THEN inventory
  ELSE LET k == CHOOSE x \in DOMAIN delivered_amounts : TRUE
           new_amount == DictGet(inventory, k) - delivered_amounts[k]
           inv1 == IF k \notin DOMAIN inventory THEN inventory
                   ELSE DictSet(inventory, k, new_amount)
       IN on_plants_delivered_keeping_zero(inv1, DictDel(delivered_amounts, k))

\* MapUI._on_plants_delivered: the loop over delivered_amounts.items().
RECURSIVE on_plants_delivered(_, _)
on_plants_delivered(inventory, delivered_amounts) ==
  IF DOMAIN delivered_amounts = {} THEN inventory
  ELSE LET k == CHOOSE x \in DOMAIN delivered_amounts : TRUE
           new_amount == DictGet(inventory, k) - delivered_amounts[k]
           inv1 == IF k \notin DOMAIN inventory THEN inventory
                   ELSE IF new_amount <= 0 THEN DictDel(inventory, k)
                   ELSE DictSet(inventory, k, new_amount)
       IN on_plants_delivered(inv1, DictDel(delivered_amounts, k))

\* MapUI._get_order_for_location: the first accepted order of the location.
RECURSIVE get_order_for_location(_, _)
get_order_for_location(accepted, location_name) ==
  IF accepted = << >> THEN NoOrder
  ELSE IF OrderData[Head(accepted)].customer_location = location_name
       THEN Head(accepted)
       ELSE get_order_for_location(Tail(accepted), location_name)

\* MapUI._can_deliver_order.
\* _can_deliver_order asking only whether the player carries anything.
can_deliver_order_any_plant(o, inventory) ==
  \E k \in DOMAIN inventory : inventory[k] > 0

can_deliver_order(o, inventory) ==
  \E i \in 1..Len(OrderData[o].plants) :
     DictGet(inventory, OrderData[o].plants[i].filename) > 0

\* ------------------------------------------------ GreenhouseInventorySystem
\* A greenhouse value g is a record of GreenhouseInventorySystem's fields;
\* all_plants is Plants.

\* The values a map passes to GreenhouseInventorySystem.set_config; one
\* small configuration (the source's defaults are 7, 30.0 and 60.0).
inventory_max == 2
grow_time_min == 1
grow_time_max == 2
\* MapUI.max_inventory_size.
max_inventory_size == 15

\* The configured plant_initial_amount and plant_grow_amount of a map.
InitialAmountChoices == 0 .. (inventory_max + 1)
GrowAmountChoices == {1, 2}

\* GreenhouseInventorySystem() before set_config and initialize.
NewGreenhouse ==
  [is_initialized |-> FALSE, inventory |-> << >>, grow_timer |-> 0,
   next_grow_time |-> 0, initial_amount |-> 1, grow_amount |-> 3]

\* _initialize_inventory.
initialize_inventory(g) ==
  [g EXCEPT !.inventory = [p \in Plants |-> g.initial_amount]]

\* _roll_next_grow_time with the value random.uniform returned.
roll_next_grow_time(g, t) ==
  [g EXCEPT !.next_grow_time = t, !.grow_timer = 0]

\* set_config followed by initialize.
initialize(initial_amount, grow_amount, t) ==
  [roll_next_grow_time(
     initialize_inventory([NewGreenhouse EXCEPT
                             !.initial_amount = initial_amount,
                             !.grow_amount = grow_amount]), t)
   EXCEPT !.is_initialized = TRUE]

\* growable_plants of _grow_plants.
GrowablePlants(g) ==
  {p \in Plants : DictGet(g.inventory, p) < inventory_max}

\* grow_count of _grow_plants.
GrowCount(g) == Min(g.grow_amount, Cardinality(GrowablePlants(g)))

\* What random.sample(growable_plants, grow_count) can return.
GrowSamples(g) ==
  {S \in SUBSET GrowablePlants(g) : Cardinality(S) = GrowCount(g)}

\* _grow_plants adding grow_amount, not 1, to every selected plant.
grow_plants_by_amount(g, selected_plants) ==
  IF GrowablePlants(g) = {} THEN g
  ELSE [g EXCEPT !.inventory =
          [p \in DOMAIN @ \cup selected_plants |->
             IF p \in selected_plants THEN DictGet(@, p) + g.grow_amount
             ELSE @[p]]]

\* _grow_plants with the sample random.sample returned.
grow_plants(g, selected_plants) ==
  IF GrowablePlants(g) = {} THEN g
  ELSE [g EXCEPT !.inventory =
          [p \in DOMAIN @ \cup selected_plants |->
             IF p \in selected_plants THEN DictGet(@, p) + 1 ELSE @[p]]]

\* The test of update with > written for >=.
GrowthDueStrict(g, dt) == g.is_initialized /\ g.grow_timer + dt > g.next_grow_time

\* Whether update(dt) starts a growth cycle.
GrowthDue(g, dt) == g.is_initialized /\ g.grow_timer + dt >= g.next_grow_time

\* update(dt) with the sample and the interval the random source returned.
update(g, dt, selected_plants, t) ==
  IF ~g.is_initialized THEN g
  ELSE IF GrowthDue(g, dt)
       THEN roll_next_grow_time(grow_plants(g, selected_plants), t)
       ELSE [g EXCEPT !.grow_timer = @ + dt]

\* can_take_plant with >= written for >.
can_take_plant_from_zero(g, p) == DictGet(g.inventory, p) >= 0

can_take_plant(g, p) == DictGet(g.inventory, p) > 0

\* take_plant: << greenhouse afterwards, return value >>.
take_plant(g, p) ==
  IF ~can_take_plant(g, p) THEN << g, FALSE >>
  ELSE << [g EXCEPT !.inventory[p] = @ - 1], TRUE >>

\* return_plant without the test against inventory_max.
return_plant_unchecked(g, p) ==
  << [g EXCEPT !.inventory = DictSet(@, p, DictGet(g.inventory, p) + 1)], TRUE >>

\* return_plant: << greenhouse afterwards, return value >>.
return_plant(g, p) ==
  LET current_count == DictGet(g.inventory, p)
  IN IF current_count >= inventory_max THEN << g, FALSE >>
     ELSE << [g EXCEPT !.inventory = DictSet(@, p, current_count + 1)], TRUE >>

\* MapUI.get_inventory_count.
RECURSIVE SumDict(_)
SumDict(d) ==
  IF DOMAIN d = {} THEN 0
  ELSE LET k == CHOOSE x \in DOMAIN d : TRUE
       IN d[k] + SumDict(DictDel(d, k))

get_inventory_count(inventory) == SumDict(inventory)

\* can_pick_plant with <= written for <.
can_pick_plant_at_capacity(inventory) ==
  get_inventory_count(inventory) <= max_inventory_size

can_pick_plant(inventory) == get_inventory_count(inventory) < max_inventory_size

\* MapUI.pick_plant: << greenhouse, player inventory, return value >>.
pick_plant(g, inventory, p) ==
  IF ~can_pick_plant(inventory) THEN << g, inventory, FALSE >>
  ELSE LET taken == take_plant(g, p)
       IN IF ~taken[2] THEN << g, inventory, FALSE >>
          ELSE << taken[1], DictSet(inventory, p, DictGet(inventory, p) + 1),
                  TRUE >>

\* MapUI.drop_plant: << greenhouse, player inventory, return value >>.
drop_plant(g, inventory, p) ==
  IF p \notin DOMAIN inventory THEN << g, inventory, FALSE >>
  ELSE IF inventory[p] <= 0 THEN << g, inventory, FALSE >>
  ELSE LET returned == return_plant(g, p)
       IN IF ~returned[2] THEN << g, inventory, FALSE >>
          ELSE << returned[1],
                  IF inventory[p] - 1 <= 0 THEN DictDel(inventory, p)
                  ELSE DictSet(inventory, p, inventory[p] - 1),
                  TRUE >>

\* ------------------------------------------------------------------- state

VARIABLES
  order_manager,         \* the OrderManager and its Orders
  visible_order_screen,  \* PhoneVisibleOrderScreen.order, NoOrder when closed
  delivery_dialog,       \* the DeliveryDialog
  player_inventory,      \* MapUI.player_inventory: plant -> count, no zeros
  greenhouse,            \* the GreenhouseInventorySystem
  last                   \* the handler that ran last, with its argument

vars == << order_manager, visible_order_screen, delivery_dialog,
           player_inventory, greenhouse, last >>

\* The inventories the player may carry when the orders are loaded.
CarriedChoices ==
  { [apple |-> 2, basil |-> 2], [apple |-> 1, basil |-> 1], [basil |-> 1] }

\* A handler call: its name, its argument (an order or a plant), the batch a
\* tick released, and what it returned to its caller.
Call(op, arg, batch, ret) == [op |-> op, arg |-> arg, batch |-> batch, ret |-> ret]

Init ==
  /\ \E t \in ThresholdChoices :
        order_manager = LoadedManager(t[1], t[2], t[3])
  /\ visible_order_screen = NoOrder
  /\ delivery_dialog = ClosedDialog
  /\ player_inventory \in CarriedChoices
  /\ greenhouse = NewGreenhouse
  /\ last = Call("load_orders", NoOrder, << >>, "None")

\* ----------------------------------------------------------------- actions

\* One frame of the map: esper.process(dt) runs OrderSystem.process(dt).
Tick ==
  \E dt \in 1..MaxDt :
    \E roll \in RollsFor(Range(ReleasedBatch(order_manager, dt))) :
      /\ order_manager' = process(order_manager, dt, roll)
      /\ last' = Call("process", NoOrder, ReleasedBatch(order_manager, dt), "None")
      /\ UNCHANGED << visible_order_screen, delivery_dialog, player_inventory,
                     greenhouse >>

\* PhoneScreen.handle_input: an accept button of the order list is clicked and
\* the detail screen opens (phone.py:173-177); the buttons are drawn for the
\* visible orders whose accept countdown is positive (phone.py:486, 531).
PhoneOpenDetails ==
  \E o \in Orders :
    /\ delivery_dialog.order = NoOrder
    /\ visible_order_screen = NoOrder
    /\ InList(o, order_manager.visible_orders)
    /\ order_manager.order[o].countdown_to_available > 0
    /\ visible_order_screen' = o
    /\ last' = Call("ui", NoOrder, << >>, "None")
    /\ UNCHANGED << order_manager, delivery_dialog, player_inventory, greenhouse >>

\* OK on the detail screen: PhoneVisibleOrderScreen.accept_order and close,
\* then PhoneScreen calls order_manager.accept_order (phone.py:108-115).
PhoneOk ==
  /\ visible_order_screen # NoOrder
  /\ \/ InList(visible_order_screen, order_manager.visible_orders)
     \/ TotalEntries(order_manager) < Cardinality(Orders) + MaxDuplicates
  /\ order_manager' = accept_order(order_manager, visible_order_screen)
  /\ visible_order_screen' = NoOrder
  /\ last' = Call("accept_order", visible_order_screen, << >>, "None")
  /\ UNCHANGED << delivery_dialog, player_inventory, greenhouse >>

\* X on the detail screen (phone_visible_order.py:136-138).
PhoneBack ==
  /\ visible_order_screen # NoOrder
  /\ visible_order_screen' = NoOrder
  /\ last' = Call("ui", NoOrder, << >>, "None")
  /\ UNCHANGED << order_manager, delivery_dialog, player_inventory, greenhouse >>

\* A click outside the device closes the phone (phone.py:101-106).
PhoneClose ==
  /\ visible_order_screen # NoOrder
  /\ visible_order_screen' = NoOrder
  /\ last' = Call("ui", NoOrder, << >>, "None")
  /\ UNCHANGED << order_manager, delivery_dialog, player_inventory, greenhouse >>

\* The door button near a location (map_ui.py:421-441, 281-292).
OpenDelivery ==
  \E loc \in Locations :
    LET o == get_order_for_location(order_manager.accepted_orders, loc)
    IN /\ delivery_dialog.order = NoOrder
       /\ visible_order_screen = NoOrder
       /\ o # NoOrder
       /\ can_deliver_order(o, player_inventory)
       /\ delivery_dialog' = calculate_delivery(o, player_inventory)
       /\ last' = Call("ui", NoOrder, << >>, "None")
       /\ UNCHANGED << order_manager, visible_order_screen, player_inventory,
                    greenhouse >>

\* A click on the door button while it is drawn disabled: the nearby location
\* has an accepted order but _can_deliver_order is false, so _draw_phone_icons
\* returns no "open_delivery" (map_ui.py:421-441).
DoorClickDisabled ==
  \E loc \in Locations :
    LET o == get_order_for_location(order_manager.accepted_orders, loc)
    IN /\ delivery_dialog.order = NoOrder
       /\ visible_order_screen = NoOrder
       /\ o # NoOrder
       /\ ~can_deliver_order(o, player_inventory)
       /\ last' = Call("deliver_blocked", o, << >>, "None")
       /\ UNCHANGED << order_manager, visible_order_screen, delivery_dialog,
                       player_inventory, greenhouse >>

\* OK in the delivery dialog (delivery_dialog.py:386-392) and _complete_order.
DeliveryOk ==
  /\ delivery_dialog.order # NoOrder
  /\ ~delivery_dialog.celebrating
  /\ IF delivery_dialog.can_deliver
     THEN /\ player_inventory' =
               on_plants_delivered(player_inventory,
                                   delivery_dialog.deliverable_amounts)
          /\ order_manager' =
               complete_order(order_manager, delivery_dialog.order,
                              delivery_dialog.total_deliverable,
                              delivery_dialog.is_full_delivery)
          /\ delivery_dialog' = [delivery_dialog EXCEPT !.celebrating = TRUE]
          /\ last' = Call("complete_order", delivery_dialog.order, << >>, "None")
     ELSE /\ last' = Call("ui", NoOrder, << >>, "None")
          /\ UNCHANGED << order_manager, delivery_dialog, player_inventory, greenhouse >>
  /\ UNCHANGED << visible_order_screen, greenhouse >>

\* OK after the celebration: DeliveryDialog.close (delivery_dialog.py:370-374).
\* close leaves the calculated amounts behind; nothing reads them before the
\* next open recalculates them, and the model clears them.
CelebrationClose ==
  /\ delivery_dialog.order # NoOrder
  /\ delivery_dialog.celebrating
  /\ delivery_dialog' = ClosedDialog
  /\ last' = Call("ui", NoOrder, << >>, "None")
  /\ UNCHANGED << order_manager, visible_order_screen, player_inventory,
                    greenhouse >>

Next ==
  \/ Tick
  \/ PhoneOpenDetails
  \/ PhoneOk
  \/ PhoneBack
  \/ PhoneClose
  \/ OpenDelivery
  \/ DoorClickDisabled
  \/ DeliveryOk
  \/ CelebrationClose

Spec == Init /\ [][Next]_vars

\* ------------------------------------------- the greenhouse and the carrying

\* The map after initialize_greenhouse_inventory, the player carrying nothing.
InitGreenhouse ==
  /\ order_manager = LoadedManager(0, 0, 0)
  /\ visible_order_screen = NoOrder
  /\ delivery_dialog = ClosedDialog
  /\ player_inventory = << >>
  /\ \E a \in InitialAmountChoices, n \in GrowAmountChoices,
        t \in grow_time_min .. grow_time_max :
        greenhouse = initialize(a, n, t)
  /\ last = Call("initialize", NoOrder, << >>, "None")

\* MapScreen.update(dt): greenhouse_inventory_system.update(dt).
GreenhouseUpdate ==
  \E dt \in 1..MaxDt :
    \E selected_plants \in (IF GrowthDue(greenhouse, dt)
                             THEN GrowSamples(greenhouse) ELSE {{}}),
       t \in (IF GrowthDue(greenhouse, dt)
               THEN grow_time_min .. grow_time_max
               ELSE {greenhouse.next_grow_time}) :
      /\ greenhouse' = update(greenhouse, dt, selected_plants, t)
      /\ last' = Call("update", NoOrder, << >>, "None")
      /\ UNCHANGED << order_manager, visible_order_screen, delivery_dialog,
                      player_inventory >>

\* A plus button of the greenhouse dialog (greenhouse.py:305-312).
PickPlant ==
  \E p \in Plants :
    LET r == pick_plant(greenhouse, player_inventory, p)
    IN /\ greenhouse' = r[1]
       /\ player_inventory' = r[2]
       /\ last' = Call("pick_plant", p, << >>, r[3])
       /\ UNCHANGED << order_manager, visible_order_screen, delivery_dialog >>

\* A minus button of the greenhouse dialog (greenhouse.py:315-322).
DropPlant ==
  \E p \in Plants :
    LET r == drop_plant(greenhouse, player_inventory, p)
    IN /\ greenhouse' = r[1]
       /\ player_inventory' = r[2]
       /\ last' = Call("drop_plant", p, << >>, r[3])
       /\ UNCHANGED << order_manager, visible_order_screen, delivery_dialog >>

NextGreenhouse ==
  \/ GreenhouseUpdate
  \/ PickPlant
  \/ DropPlant

SpecGreenhouse == InitGreenhouse /\ [][NextGreenhouse]_vars

\* ------------------------------------------------------ loading the orders
\* The orders file holds, for one location, a list of order descriptors. A
\* descriptor is a function from the keys it has to their values, so a key
\* can be missing; the same holds for a plant descriptor.

\* d.get(key, default).
GetOr(d, key, default) == IF key \in DOMAIN d THEN d[key] ELSE default

\* The dict d with only its keys in S.
Restrict(d, S) == [key \in S \cap DOMAIN d |-> d[key]]

\* A plant descriptor with some of its keys missing.
PlantDescriptors ==
  {Restrict([plant_filename |-> "apple", amount |-> 2], S) :
     S \in SUBSET {"plant_filename", "amount"}}

\* An order descriptor with some of its keys missing.
OrderDescriptors ==
  {Restrict([order_id |-> "L1_order1", send_time |-> 2, plants |-> << pd >>], S) :
     pd \in PlantDescriptors, S \in SUBSET {"order_id", "send_time", "plants"}}

\* The order lists an orders file may hold for location "L1".
OrderLists ==
  UNION {[1..n -> OrderDescriptors] : n \in 1..MaxDescriptors}

\* PlantOrder(...) of load_orders; the old key "filename" is not in the files
\* modelled, so the inner get returns "".
LoadPlant(plant_data) ==
  [filename |-> GetOr(plant_data, "plant_filename", ""),
   amount |-> GetOr(plant_data, "amount", 1)]

\* Order(...) of load_orders for one descriptor of location_name.
LoadOrder(location_name, order_data) ==
  LET plant_list == GetOr(order_data, "plants", << >>)
  IN [order_id |-> GetOr(order_data, "order_id", ""),
      customer_location |-> location_name,
      plants |-> [i \in 1..Len(plant_list) |-> LoadPlant(plant_list[i])],
      state |-> AVAILABLE,
      send_time |-> GetOr(order_data, "send_time", 0),
      countdown_to_visible |-> -1,
      countdown_to_available |-> -1]

\* OrderManager.load_orders for an orders file with the one location.
load_orders(m, location_name, order_list) ==
  [m EXCEPT !.available_orders =
     [i \in 1..Len(order_list) |-> LoadOrder(location_name, order_list[i])]]

\* OrderManager() before load_orders.
UnloadedManager ==
  [LoadedManager(0, 0, 0) EXCEPT !.available_orders = << >>, !.order = << >>]

\* The map before MapScreen.load_orders: last.arg is the list the file holds.
InitLoad ==
  /\ order_manager = UnloadedManager
  /\ visible_order_screen = NoOrder
  /\ delivery_dialog = ClosedDialog
  /\ player_inventory = << >>
  /\ greenhouse = NewGreenhouse
  /\ \E order_list \in OrderLists :
        last = Call("orders_file", order_list, << >>, "None")

\* MapScreen.load_orders: json.load, then order_manager.load_orders inside
\* try/except; the method returns None and an exception only reaches the
\* debug log. Here the orders in available_orders are Order records.
LoadOrdersFile ==
  /\ last.op = "orders_file"
  /\ order_manager' = load_orders(order_manager, "L1", last.arg)
  /\ last' = Call("load_orders", last.arg, << >>, "None")
  /\ UNCHANGED << visible_order_screen, delivery_dialog, player_inventory,
                  greenhouse >>

NextLoad == LoadOrdersFile

SpecLoad == InitLoad /\ [][NextLoad]_vars

\* ---------------------------------------------------------------- GameScore
\* GameScore.add_completed_map reads completed_orders and the scoring values
\* of the manager and builds a MapScore; of the MapScore the model keeps the
\* three totals and the OrderScore list.

\* sum(p.amount for p in order.plants).
RECURSIVE SumAmounts(_)
SumAmounts(plants) ==
  IF plants = << >> THEN 0
  ELSE Head(plants).amount + SumAmounts(Tail(plants))

\* The OrderScore add_completed_map builds for one completed order: delivered
\* is set to requested and is_full_delivery to True.
OrderScore(o) ==
  LET plants_requested == SumAmounts(OrderData[o].plants)
      plants_delivered == plants_requested
      is_full == TRUE
  IN [order_id |-> o,
      plants_delivered |-> plants_delivered,
      plants_requested |-> plants_requested,
      is_full_delivery |-> is_full,
      score_earned |-> plants_delivered * points_per_plant
                         + (IF is_full THEN full_order_bonus ELSE 0)]

\* sum(f(o) for o in order_scores), f being one of the two summed fields.
RECURSIVE SumPlantsDelivered(_)
SumPlantsDelivered(order_scores) ==
  IF order_scores = << >> THEN 0
  ELSE Head(order_scores).plants_delivered + SumPlantsDelivered(Tail(order_scores))

RECURSIVE SumScoreEarned(_)
SumScoreEarned(order_scores) ==
  IF order_scores = << >> THEN 0
  ELSE Head(order_scores).score_earned + SumScoreEarned(Tail(order_scores))

\* GameScore.add_completed_map(map_number, order_manager): the MapScore.
add_completed_map(m) ==
  LET order_scores == [i \in 1..Len(m.completed_orders) |->
                         OrderScore(m.completed_orders[i])]
  IN [orders_completed |-> Len(order_scores),
      plants_delivered |-> SumPlantsDelivered(order_scores),
      total_score |-> SumScoreEarned(order_scores),
      order_scores |-> order_scores]

\* ================================================================== claims

\* Occurrences of order o in the five collections together.
Occurrences(o) ==
  Count(o, order_manager.available_orders)
    + Count(o, order_manager.incoming_orders)
    + Count(o, order_manager.visible_orders)
    + Count(o, order_manager.accepted_orders)
    + Count(o, order_manager.completed_orders)

\* C1: every loaded order is in exactly one of the five collections, exactly
\* once, in every state reached by ticks, accepts and settlements.
C1_ExactlyOneCollection ==
  \A o \in Orders : Occurrences(o) = 1

\* C2: an accept of an order that is not in visible_orders reports a failure
\* to its caller and changes nothing of the manager: no order state, no
\* countdown, none of the five collections.
C2_AcceptNonVisibleRejected ==
  [][ (last'.op = "accept_order"
         /\ ~InList(last'.arg, order_manager.visible_orders))
      => (last'.ret # "None" /\ order_manager' = order_manager) ]_vars

\* C3: a settlement of an order whose state is not ACCEPTED reports a failure
\* to its caller and changes neither the five collections nor the counters.
C3_SettleNonAcceptedRejected ==
  [][ (last'.op = "complete_order"
         /\ order_manager.order[last'.arg].state # ACCEPTED)
      => (/\ last'.ret # "None"
          /\ order_manager'.available_orders = order_manager.available_orders
          /\ order_manager'.incoming_orders = order_manager.incoming_orders
          /\ order_manager'.visible_orders = order_manager.visible_orders
          /\ order_manager'.accepted_orders = order_manager.accepted_orders
          /\ order_manager'.completed_orders = order_manager.completed_orders
          /\ order_manager'.orders_completed_count
               = order_manager.orders_completed_count
          /\ order_manager'.plants_delivered_count
               = order_manager.plants_delivered_count
          /\ order_manager'.total_score = order_manager.total_score) ]_vars

C5_CountersNeverDecrease ==
  [][ /\ order_manager'.orders_completed_count
           >= order_manager.orders_completed_count
      /\ order_manager'.plants_delivered_count
           >= order_manager.plants_delivered_count
      /\ order_manager'.total_score >= order_manager.total_score ]_vars

\* C5 witness: a second settlement has just raised all three counters.
C5_Witness ==
  /\ last.op = "complete_order"
  /\ order_manager.orders_completed_count >= 2
  /\ order_manager.plants_delivered_count >= 2
  /\ order_manager.total_score >= 2 * points_per_plant

\* C6: once map_completed is true it stays true; and with orders_required
\* configured and the other thresholds 0, a tick that evaluates a state with
\* orders_completed_count >= orders_required leaves map_completed true.
C6_CompletedIsSticky ==
  [][ /\ order_manager.map_completed => order_manager'.map_completed
      /\ (/\ last'.op = "process"
          /\ order_manager'.orders_required > 0
          /\ order_manager'.plants_required = 0
          /\ order_manager'.score_required = 0
          /\ order_manager'.orders_completed_count
               >= order_manager'.orders_required)
         => order_manager'.map_completed ]_vars

\* C6 witness: only orders_required is configured, the map completed, and
\* further settlements and ticks have followed.
C6_Witness ==
  /\ order_manager.map_completed
  /\ last.op = "process"
  /\ order_manager.orders_required > 0
  /\ order_manager.plants_required = 0
  /\ order_manager.score_required = 0
  /\ order_manager.orders_completed_count > order_manager.orders_required

\* Whether a configured threshold of m is reached by its counter.
ThresholdReached(m) ==
  \/ m.orders_required > 0 /\ m.orders_completed_count >= m.orders_required
  \/ m.plants_required > 0 /\ m.plants_delivered_count >= m.plants_required
  \/ m.score_required > 0 /\ m.total_score >= m.score_required

\* C7: after a completion check map_completed is true exactly when it was
\* true before or a configured (> 0) threshold is reached by its counter; with
\* all three thresholds 0 the map never completes.
C7_CompletionDisjunction ==
  [][ /\ last'.op = "process"
         => (order_manager'.map_completed
               <=> (order_manager.map_completed
                      \/ ThresholdReached(order_manager)))
      /\ (/\ order_manager'.orders_required = 0
          /\ order_manager'.plants_required = 0
          /\ order_manager'.score_required = 0)
         => ~order_manager'.map_completed ]_vars

\* C7 witness: the map completed on a configured threshold other than
\* orders_required while the configured orders threshold was not reached.
C7_Witness ==
  /\ order_manager.map_completed
  /\ last.op = "process"
  /\ order_manager.orders_required > 0
  /\ order_manager.orders_completed_count < order_manager.orders_required
  /\ order_manager.score_required > 0
  /\ order_manager.total_score >= order_manager.score_required

\* C8: a tick that releases a batch selects exactly
\* min(batch_size, number of AVAILABLE orders) distinct orders of the pool, so
\* at most batch_size, and no other order enters INCOMING (or, by the same
\* tick's countdowns, VISIBLE).
C8_BatchSizeExact ==
  [][ (last'.op = "process" /\ last'.batch # << >>)
      => (/\ Len(last'.batch)
               = Min(batch_size, Len(order_manager.available_orders))
          /\ Len(last'.batch) <= batch_size
          /\ Cardinality(Range(last'.batch)) = Len(last'.batch)
          /\ Range(last'.batch) \subseteq Range(order_manager.available_orders)
          /\ Range(order_manager'.incoming_orders)
               \cup Range(order_manager'.visible_orders)
               \subseteq Range(last'.batch)
          /\ \A o \in Range(order_manager.available_orders) \ Range(last'.batch) :
               InList(o, order_manager'.available_orders)) ]_vars

\* C8 witness: the pool held one order, fewer than batch_size, and the tick
\* moved exactly that order to INCOMING.
C8_Witness ==
  /\ last.op = "process"
  /\ Len(last.batch) = 1
  /\ order_manager.incoming_orders = last.batch
  /\ order_manager.available_orders = << >>

RECURSIVE RequestedOf(_, _)
RequestedOf(lines, k) ==
  IF lines = << >> THEN 0
  ELSE (IF Head(lines).filename = k THEN Head(lines).amount ELSE 0)
         + RequestedOf(Tail(lines), k)

\* The last request line of `lines` for plant k.
LastLineOf(lines, k) ==
  LET i == CHOOSE j \in 1..Len(lines) :
             /\ lines[j].filename = k
             /\ \A h \in (j + 1)..Len(lines) : lines[h].filename # k
  IN lines[i]

\* C10: in every settlement about to be made, every requested plant has a
\* deliverable amount; it equals min(requested amount, carried amount) of its
\* request line, the carried amount being 0 for a plant not carried, and so
\* never exceeds what is requested or what is carried.
C10_DeliverableIsMin ==
  (delivery_dialog.order # NoOrder /\ ~delivery_dialog.celebrating)
  => LET lines == OrderData[delivery_dialog.order].plants
         amounts == delivery_dialog.deliverable_amounts
     IN /\ DOMAIN amounts = {lines[i].filename : i \in 1..Len(lines)}
        /\ \A k \in DOMAIN amounts :
             /\ amounts[k] = Min(LastLineOf(lines, k).amount,
                                 IF k \in DOMAIN player_inventory
                                 THEN player_inventory[k] ELSE 0)
             /\ amounts[k] <= RequestedOf(lines, k)
             /\ k \in DOMAIN player_inventory => amounts[k] <= player_inventory[k]
             /\ k \notin DOMAIN player_inventory => amounts[k] = 0

\* C10 witness: the dialog is open for o1 (2 apples, 1 basil) while the
\* player carries one basil and no apple.
C10_Witness ==
  /\ delivery_dialog.order = "o1"
  /\ ~delivery_dialog.celebrating
  /\ "apple" \notin DOMAIN player_inventory
  /\ delivery_dialog.deliverable_amounts["apple"] = 0
  /\ delivery_dialog.deliverable_amounts["basil"] = 1

\* The sum, over the request lines, of what each line can deliver from the
\* inventory: min(amount, carried), carried being 0 for a plant not carried.
RECURSIVE LinesDeliverable(_, _)
LinesDeliverable(lines, inventory) ==
  IF lines = << >> THEN 0
  ELSE (LET carried == IF Head(lines).filename \in DOMAIN inventory
                       THEN inventory[Head(lines).filename] ELSE 0
        IN IF Head(lines).amount <= carried THEN Head(lines).amount ELSE carried)
       + LinesDeliverable(Tail(lines), inventory)

\* The sum of the amounts of the request lines.
RECURSIVE LinesRequested(_)
LinesRequested(lines) ==
  IF lines = << >> THEN 0
  ELSE Head(lines).amount + LinesRequested(Tail(lines))

CarriesNothingFor(o, inventory) ==
  \A i \in 1..Len(OrderData[o].plants) :
    \/ OrderData[o].plants[i].filename \notin DOMAIN inventory
    \/ inventory[OrderData[o].plants[i].filename] <= 0

\* C12: while the player carries no unit of any plant an accepted order
\* requests, a deliver attempt for it is blocked: no delivery dialog opens for
\* it, no settlement of it happens, and the attempt leaves the order ACCEPTED
\* and the inventory, the collections and the counters as they were.
C12_DeliverBlockedWhenNothingCarried ==
  [][ /\ \A o \in Orders :
           (/\ last'.op \in {"complete_order", "deliver_blocked"}
            /\ last'.arg = o
            /\ CarriesNothingFor(o, player_inventory))
           => (/\ last'.op = "deliver_blocked"
               /\ order_manager' = order_manager
               /\ player_inventory' = player_inventory
               /\ InList(o, order_manager'.accepted_orders))
      /\ (delivery_dialog.order = NoOrder /\ delivery_dialog'.order # NoOrder)
           => ~CarriesNothingFor(delivery_dialog'.order, player_inventory) ]_vars

\* C12 witness: the player carries basil only and has just clicked the
\* disabled door button for the accepted order o2, which requests apples.
C12_Witness ==
  /\ last.op = "deliver_blocked"
  /\ last.arg = "o2"
  /\ order_manager.order["o2"].state = ACCEPTED
  /\ InList("o2", order_manager.accepted_orders)
  /\ CarriesNothingFor("o2", player_inventory)
  /\ player_inventory # << >>

\* The stock of plant p in greenhouse g, 0 for a plant it does not list.
StockOf(g, p) == IF p \in DOMAIN g.inventory THEN g.inventory[p] ELSE 0

\* Whether the stock of g2 is that of g1 with n added to plant p alone.
StockChangedBy(g1, g2, p, n) ==
  \A q \in Plants : StockOf(g2, q) = StockOf(g1, q) + (IF q = p THEN n ELSE 0)

\* C13: take_plant, reached through pick_plant when the player has room,
\* returns true exactly when the plant's stock was above 0, and return_plant,
\* reached through drop_plant when the player carries the plant, returns true
\* exactly when the stock was below inventory_max; true moves exactly one unit
\* of that plant (down for take, up for return), false leaves all stock as it
\* was, and the result is always a boolean.
C13_TakeAndReturn ==
  [][ \A p \in Plants :
        /\ (/\ last'.op = "pick_plant" /\ last'.arg = p
            /\ SumDict(player_inventory) < max_inventory_size)
           => (/\ last'.ret \in BOOLEAN
               /\ last'.ret <=> (StockOf(greenhouse, p) > 0)
               /\ last'.ret => StockChangedBy(greenhouse, greenhouse', p, 0 - 1)
               /\ ~last'.ret => StockChangedBy(greenhouse, greenhouse', p, 0))
        /\ (/\ last'.op = "drop_plant" /\ last'.arg = p
            /\ p \in DOMAIN player_inventory
            /\ player_inventory[p] > 0)
           => (/\ last'.ret \in BOOLEAN
               /\ last'.ret <=> (StockOf(greenhouse, p) < inventory_max)
               /\ last'.ret => StockChangedBy(greenhouse, greenhouse', p, 1)
               /\ ~last'.ret => StockChangedBy(greenhouse, greenhouse', p, 0)) ]_vars

\* C13 witness: the player carries a plant whose stock is at inventory_max and
\* the return of it was refused.
C13_Witness ==
  /\ last.op = "drop_plant"
  /\ last.ret = FALSE
  /\ last.arg \in DOMAIN player_inventory
  /\ player_inventory[last.arg] > 0
  /\ StockOf(greenhouse, last.arg) = inventory_max

\* The plants whose stock differs between greenhouses g1 and g2.
GrownPlants(g1, g2) == {p \in Plants : StockOf(g2, p) # StockOf(g1, p)}

\* C14: a growth event raises exactly min(grow_amount, number of plants below
\* inventory_max) plants, each by exactly 1 and each below inventory_max
\* before, and changes no other plant; with every plant at inventory_max it
\* changes nothing. An update without a growth event changes no stock.
C14_GrowthEvent ==
  [][ last'.op = "update"
      => LET below == {p \in Plants : StockOf(greenhouse, p) < inventory_max}
             grown == GrownPlants(greenhouse, greenhouse')
         IN IF greenhouse'.grow_timer = 0
            THEN /\ Cardinality(grown)
                      = (IF greenhouse.grow_amount <= Cardinality(below)
                         THEN greenhouse.grow_amount ELSE Cardinality(below))
                 /\ grown \subseteq below
                 /\ \A p \in grown :
                      StockOf(greenhouse', p) = StockOf(greenhouse, p) + 1
            ELSE grown = {} ]_vars

\* C14 witness: with grow_amount 1 and nothing stocked at the start, growth
\* events have raised one plant to inventory_max and never touched the other.
C14_Witness ==
  /\ last.op = "update"
  /\ greenhouse.grow_timer = 0
  /\ greenhouse.grow_amount = 1
  /\ greenhouse.initial_amount = 0
  /\ \E p, q \in Plants : /\ StockOf(greenhouse, p) = inventory_max
                          /\ StockOf(greenhouse, q) = 0

\* C15: a tick takes an order out of visible_orders only when its accept
\* window has run out; the order is then AVAILABLE again, at the end of the
\* pool, with both countdowns -1, and a visible order the tick leaves visible
\* keeps counting down. Its request lines, location and send_time are fixed
\* at load. (That a later batch selects it again is C15_Witness.)
C15_ExpiryReturnsToPool ==
  [][ last'.op = "process"
      => \A o \in Orders :
           InList(o, order_manager.visible_orders)
           => IF InList(o, order_manager'.visible_orders)
              THEN /\ order_manager'.order[o].state = VISIBLE
                   /\ order_manager'.order[o].countdown_to_available > 0
                   /\ order_manager'.order[o].countdown_to_available
                        < order_manager.order[o].countdown_to_available
              ELSE /\ order_manager.order[o].countdown_to_available <= MaxDt
                   /\ order_manager'.order[o].state = AVAILABLE
                   /\ order_manager'.order[o].countdown_to_visible = -1
                   /\ order_manager'.order[o].countdown_to_available = -1
                   /\ Len(order_manager'.available_orders) > 0
                   /\ Count(o, order_manager'.available_orders)
                        = Count(o, order_manager.available_orders) + 1 ]_vars

\* C15 witness: no order was ever accepted, o2 is at the head of the pool as
\* the first release left it, and the tick released o3 for the second time:
\* o3 came back to the pool by the run-out of its accept window.
C15_Witness ==
  /\ last.op = "process"
  /\ last.batch = << "o2", "o3" >>
  /\ order_manager.accepted_orders = << >>
  /\ order_manager.completed_orders = << >>
  /\ order_manager.order["o3"].state \in {INCOMING, VISIBLE}

\* C16: after the tick that takes an order out of incoming_orders the order
\* is VISIBLE and its countdown_to_available is the full accept_time.
C16_FullAcceptWindow ==
  [][ last'.op = "process"
      => \A o \in Orders :
           (/\ InList(o, order_manager.incoming_orders)
            /\ ~InList(o, order_manager'.incoming_orders))
           => (/\ order_manager'.order[o].state = VISIBLE
               /\ InList(o, order_manager'.visible_orders)
               /\ order_manager'.order[o].countdown_to_available
                    = accept_time) ]_vars

\* Whether an order descriptor lacks a required field: order_id, send_time,
\* the plant list, or a plant's plant_filename or amount.
LacksRequiredField(order_data) ==
  \/ {"order_id", "send_time", "plants"} \ DOMAIN order_data # {}
  \/ \E i \in 1..Len(order_data.plants) :
       {"plant_filename", "amount"} \ DOMAIN order_data.plants[i] # {}

\* C17: a load of an orders file in which a descriptor lacks a required field
\* reports an error to its caller and loads no order.
C17_MissingFieldFailsLoad ==
  [][ (/\ last'.op = "load_orders"
       /\ \E i \in 1..Len(last'.arg) : LacksRequiredField(last'.arg[i]))
      => (/\ last'.ret # "None"
          /\ order_manager'.available_orders = << >>) ]_vars

\* The orders listed in incoming_orders or visible_orders of manager m.
InFlight(m) == Range(m.incoming_orders) \cup Range(m.visible_orders)

\* C18: an order enters incoming_orders (or, by the same tick's countdown,
\* visible_orders) only in a tick at whose start both lists were empty; a tick
\* that starts with an order in either list leaves countdown_to_incoming as
\* it is, releases no batch and takes no order out of the pool.
C18_ReleaseOnlyWhenNothingInFlight ==
  [][ /\ (InFlight(order_manager') \ InFlight(order_manager) # {}
            \/ (last'.op = "process" /\ last'.batch # << >>))
         => (/\ last'.op = "process"
             /\ order_manager.incoming_orders = << >>
             /\ order_manager.visible_orders = << >>)
      /\ (last'.op = "process" /\ InFlight(order_manager) # {})
         => (/\ order_manager'.countdown_to_incoming
                  = order_manager.countdown_to_incoming
             /\ last'.batch = << >>
             /\ \A o \in Orders :
                  Count(o, order_manager'.available_orders)
                    >= Count(o, order_manager.available_orders)) ]_vars

\* C18 witness: a tick has run with an order visible; the pool is not empty
\* and the limit not reached, yet nothing was released and the batch timer
\* still shows the full batch_delay.
C18_Witness ==
  /\ last.op = "process"
  /\ last.batch = << >>
  /\ order_manager.visible_orders # << >>
  /\ order_manager.available_orders # << >>
  /\ Len(order_manager.accepted_orders) < active_order_limit
  /\ order_manager.countdown_to_incoming = batch_delay

\* C19 as claimed: a tick in which the batch timer runs while at least
\* active_order_limit orders are accepted releases nothing and, when the timer
\* expires in it, sets the timer to the retry value, whatever the pool holds.
C19_ThrottledResetsTimer ==
  [][ (/\ last'.op = "process"
       /\ InFlight(order_manager) = {}
       /\ Len(order_manager.accepted_orders) >= active_order_limit)
      => (/\ last'.batch = << >>
          /\ order_manager'.available_orders = order_manager.available_orders
          /\ order_manager'.incoming_orders = << >>
          /\ \E dt \in 1..MaxDt :
               order_manager'.countdown_to_incoming
                 = (IF order_manager.countdown_to_incoming - dt <= 0
                    THEN retry_delay
                    ELSE order_manager.countdown_to_incoming - dt)) ]_vars

\* C19 as amended: the same, for a pool that is not empty; with an empty pool
\* select_next_batch returns before it reads the limit, and the expired timer
\* is left expired, not set to the retry value.
C19_ThrottledResetsTimerUnlessPoolEmpty ==
  [][ (/\ last'.op = "process"
       /\ InFlight(order_manager) = {}
       /\ Len(order_manager.accepted_orders) >= active_order_limit)
      => (/\ last'.batch = << >>
          /\ order_manager'.available_orders = order_manager.available_orders
          /\ order_manager'.incoming_orders = << >>
          /\ \E dt \in 1..MaxDt :
               IF order_manager.countdown_to_incoming - dt > 0
               THEN order_manager'.countdown_to_incoming
                      = order_manager.countdown_to_incoming - dt
               ELSE IF order_manager.available_orders # << >>
               THEN order_manager'.countdown_to_incoming = retry_delay
               ELSE order_manager'.countdown_to_incoming <= 0) ]_vars

\* C19 witness: a tick has run with the limit reached, nothing in flight and
\* a pool that is not empty; nothing was released and the batch timer shows
\* the retry value.
C19_Witness ==
  /\ last.op = "process"
  /\ last.batch = << >>
  /\ InFlight(order_manager) = {}
  /\ Len(order_manager.accepted_orders) >= active_order_limit
  /\ order_manager.available_orders # << >>
  /\ order_manager.countdown_to_incoming = retry_delay

\* The locations of the orders in the list s.
LocationsOf(s) == {OrderData[s[i]].customer_location : i \in 1..Len(s)}

\* C20: a released batch holds two orders of one location only if the pool
\* held fewer locations than the batch has orders; the batch covers as many
\* locations as it can: min(batch length, locations in the pool).
C20_BatchLocationDiversity ==
  [][ (last'.op = "process" /\ last'.batch # << >>)
      => LET batch == last'.batch
             pool_locations == LocationsOf(order_manager.available_orders)
         IN /\ (\E i, j \in 1..Len(batch) :
                  /\ i # j
                  /\ OrderData[batch[i]].customer_location
                       = OrderData[batch[j]].customer_location)
               => Cardinality(pool_locations) < Len(batch)
            /\ Cardinality(LocationsOf(batch))
                 = (IF Len(batch) <= Cardinality(pool_locations)
                    THEN Len(batch) ELSE Cardinality(pool_locations)) ]_vars

\* C20 witness: the pool held orders of location L1 only and the batch holds
\* o1 and o2, both of L1.
C20_Witness ==
  /\ last.op = "process"
  /\ Len(last.batch) = 2
  /\ Range(last.batch) = {"o1", "o2"}
  /\ InList("o3", order_manager.accepted_orders)
       \/ InList("o3", order_manager.completed_orders)

\* C21: whenever a tick releases a batch, the countdown_to_visible that
\* select_next_batch stores for each released order lies between half of the
\* order's send_time and the send_time, for every tick length and every roll.
C21_RolledDelayInRange ==
  \A dt \in 1..MaxDt :
    \A roll \in RollsFor(Range(ReleasedBatch(order_manager, dt))) :
      LET released == ReleasedBatch(order_manager, dt)
          m1 == BatchStep(order_manager, dt, roll)
      IN \A i \in 1..Len(released) :
           LET o == released[i]
           IN /\ m1.order[o].state = INCOMING
              /\ OrderData[o].send_time <= 2 * m1.order[o].countdown_to_visible
              /\ m1.order[o].countdown_to_visible <= OrderData[o].send_time

\* C21 witness: a tick has released a batch and an order of it waits in
\* INCOMING with what is left of its rolled delay.
C21_Witness ==
  /\ last.op = "process"
  /\ \E i \in 1..Len(last.batch) :
       /\ order_manager.order[last.batch[i]].state = INCOMING
       /\ order_manager.order[last.batch[i]].countdown_to_visible > 0

\* C22: while the delivery dialog shows an order, total_deliverable is the sum
\* of the entries of deliverable_amounts, the units the delivery takes from
\* the player's inventory, and total_requested is the sum of the requested
\* amounts of the order's request lines.
C22_TotalsAreSums ==
  delivery_dialog.order # NoOrder
  => /\ delivery_dialog.total_deliverable
          = SumDict(delivery_dialog.deliverable_amounts)
     /\ delivery_dialog.total_requested
          = LinesRequested(OrderData[delivery_dialog.order].plants)

\* The plants named by the request lines.
RequestedPlants(lines) == {lines[i].filename : i \in 1..Len(lines)}

\* C23: a delivery takes deliverable_amounts[item] units of every item of the
\* order from player_inventory, never more than are carried; an item whose
\* count reaches 0 has no entry afterwards, no entry is 0 or negative, and
\* the items the order does not request keep their entries.
C23_DeliveryTakesDeliverable ==
  [][ last'.op = "complete_order"
      => LET lines == OrderData[delivery_dialog.order].plants
             deliverable == delivery_dialog.deliverable_amounts
         IN /\ \A k \in RequestedPlants(lines) :
                 LET carried == DictGet(player_inventory, k)
                 IN /\ k \in DOMAIN deliverable
                    /\ deliverable[k] <= carried
                    /\ IF carried - deliverable[k] > 0
                       THEN /\ k \in DOMAIN player_inventory'
                            /\ player_inventory'[k] = carried - deliverable[k]
                       ELSE k \notin DOMAIN player_inventory'
            /\ \A k \in Plants \ RequestedPlants(lines) :
                 /\ (k \in DOMAIN player_inventory')
                      = (k \in DOMAIN player_inventory)
                 /\ DictGet(player_inventory', k) = DictGet(player_inventory, k)
            /\ \A k \in DOMAIN player_inventory' : player_inventory'[k] > 0 ]_vars

\* C23 witness: o1 (apple x2, basil x1) was delivered from an inventory of one
\* apple and one basil, and the inventory is empty.
C23_Witness ==
  /\ last.op = "complete_order"
  /\ last.arg = "o1"
  /\ delivery_dialog.deliverable_amounts = [apple |-> 1, basil |-> 1]
  /\ delivery_dialog.total_requested = 3
  /\ DOMAIN player_inventory = {}

C25_OneTransitionPerTick ==
  [][ last'.op = "process"
      => \A o \in Orders :
           /\ InList(o, last'.batch)
                => order_manager'.order[o].state = INCOMING
           /\ InList(o, order_manager.incoming_orders)
                => order_manager'.order[o].state \in {INCOMING, VISIBLE} ]_vars

\* C26: orders_completed_count is the length of completed_orders, and no order
\* occurs in completed_orders more than once.
C26_SettledAtMostOnce ==
  /\ order_manager.orders_completed_count = Len(order_manager.completed_orders)
  /\ \A o \in Orders : Count(o, order_manager.completed_orders) <= 1

\* The position of the first entry of x in the list s, 0 when s does not hold x.
Position(x, s) ==
  IF InList(x, s)
  THEN CHOOSE i \in 1..Len(s) : s[i] = x /\ \A j \in 1..(i - 1) : s[j] # x
  ELSE 0

\* C27: no order waits in the pool beyond a number of releases given by its
\* position there. A batch release selects the order at the head of the pool,
\* and every other order of the pool is either selected as well or stands
\* nearer the head afterwards; no other step moves an order of the pool away
\* from the head, since orders enter the pool at its tail only. An order at
\* position k is therefore selected by the k-th release at the latest.
C27_NoStarvation ==
  [][ \A o \in Orders :
        LET k == Position(o, order_manager.available_orders)
            k_after == Position(o, order_manager'.available_orders)
        IN k > 0
           => IF last'.op = "process" /\ last'.batch # << >>
              THEN \/ InList(o, last'.batch)
                   \/ k > 1 /\ 0 < k_after /\ k_after < k
              ELSE k_after = k ]_vars

\* C27 witness: the first release took o1 and o3 and passed over o2; o1 and
\* o3 expired to the tail of the pool, and the next release has taken o2 from
\* the head.
C27_Witness ==
  /\ last.op = "process"
  /\ Len(last.batch) = 2
  /\ last.batch[1] = "o2"
  /\ order_manager.order["o2"].state = INCOMING
  /\ order_manager.available_orders = << "o1" >>
  /\ order_manager.accepted_orders = << >>

\* C28: OK on the detail screen of an order that ticks have meanwhile taken
\* out of visible_orders does not accept it: accepted_orders is as before,
\* the order keeps its state and stays in the collections that held it.
C28_StaleOkDoesNotAccept ==
  [][ (/\ last'.op = "accept_order"
       /\ visible_order_screen # NoOrder
       /\ ~InList(visible_order_screen, order_manager.visible_orders))
      => LET o == visible_order_screen
         IN /\ order_manager'.accepted_orders = order_manager.accepted_orders
            /\ order_manager'.order[o].state = order_manager.order[o].state
            /\ order_manager'.available_orders = order_manager.available_orders
            /\ order_manager'.incoming_orders = order_manager.incoming_orders ]_vars

\* What the player carries of plant p.
CarriedOf(inventory, p) == IF p \in DOMAIN inventory THEN inventory[p] ELSE 0

\* C29: pick_plant succeeds exactly when fewer than max_inventory_size plants
\* are carried and the plant is in stock, drop_plant exactly when the plant is
\* carried and its stock is below inventory_max. A success moves one unit of
\* that plant between stock and player: stock plus carried is unchanged for
\* every plant, no other plant is touched, and the carried total stays within
\* max_inventory_size. A failure changes neither the stock nor what is carried.
C29_PickAndDropConserve ==
  [][ last'.op \in {"pick_plant", "drop_plant"}
      => LET p == last'.arg
             picked == last'.op = "pick_plant"
             possible ==
               IF picked
               THEN /\ SumDict(player_inventory) < max_inventory_size
                    /\ StockOf(greenhouse, p) > 0
               ELSE /\ CarriedOf(player_inventory, p) > 0
                    /\ StockOf(greenhouse, p) < inventory_max
         IN /\ last'.ret = possible
            /\ IF possible
               THEN /\ StockChangedBy(greenhouse, greenhouse', p,
                                      IF picked THEN 0 - 1 ELSE 1)
                    /\ \A q \in Plants :
                         /\ StockOf(greenhouse', q) + CarriedOf(player_inventory', q)
                              = StockOf(greenhouse, q) + CarriedOf(player_inventory, q)
                         /\ q \in DOMAIN player_inventory'
                              => player_inventory'[q] > 0
                    /\ SumDict(player_inventory') <= max_inventory_size
               ELSE /\ greenhouse' = greenhouse
                    /\ player_inventory' = player_inventory ]_vars

\* C29 witness: the player carries max_inventory_size plants and a pick of a
\* plant that is in stock was refused.
C29_Witness ==
  /\ last.op = "pick_plant"
  /\ last.ret = FALSE
  /\ SumDict(player_inventory) = max_inventory_size
  /\ StockOf(greenhouse, last.arg) > 0

\* C30: the MapScore add_completed_map builds from the manager agrees with the
\* manager's ledger: orders_completed with orders_completed_count,
\* plants_delivered with plants_delivered_count, total_score with total_score.
C30_MapScoreAgreesWithLedger ==
  LET map_score == add_completed_map(order_manager)
  IN /\ map_score.orders_completed = order_manager.orders_completed_count
     /\ map_score.plants_delivered = order_manager.plants_delivered_count
     /\ map_score.total_score = order_manager.total_score

====
